---- MODULE Spec2Model ----
(***************************************************************************)
(* Model of the zav-hospital cloud server (zav_cloud_server.py), the        *)
(* spreadsheet import (zav_sheets_sync.py) and the daily sync job          *)
(* (sync_patients_daily.py): the patients, operation_slots and doctors     *)
(* tables and the handlers and jobs that write them.                       *)
(*                                                                         *)
(* Every db.query / db.update / db.insert is one autocommitted SQL         *)
(* statement (psycopg.connect(..., autocommit=True)); db.update and        *)
(* db.insert swallow every exception and report it as False / None.        *)
(***************************************************************************)
EXTENDS Integers, Sequences, FiniteSets, TLC

VARIABLES patients, slots, doctors, resp, approvals, reqs, summary, runs

vars == <<patients, slots, doctors, resp, approvals, reqs, summary, runs>>

NULL == "NULL"

\* ---------------------------------------------------------------- inputs

PatientIds == {"P1", "P2"}

SLOT_A == "SLOT_20260210_OR-1_AM"
SLOT_B == "SLOT_20260210_OR-2_AM"
SlotIds == {SLOT_A, SLOT_B}
UnknownSlot == "SLOT_NONE"

SeededDoctors == {"DOC001", "DOC002", "DOC003"}
ApproveDoctors == {"DOC001"}
\* an assigned_doctor_id no row of the doctors table has
UnknownDoctor == "DOC999"

Dates == {"2026-02-10"}
Approvers == {"admin"}
Reasons == {"duplicate request"}

\* the statuses a request body or a spreadsheet row may carry
PatientStatuses == {"pending", "approved", "rejected", "hospitalized", "discharged"}

\* rows of the spreadsheet processed by one import
MaxRows == 1

\* the name the request bodies, drafts and sheet rows carry
DefaultName == "Ivanov"

\* ---------------------------------------------------------------- tables

\* CREATE TABLE patients: the columns the handlers below read or write
NewPatient(st) ==
  [status |-> st, assigned_doctor_id |-> NULL, approved_by |-> NULL,
   hospitalization_date |-> NULL, rejection_reason |-> NULL,
   name |-> DefaultName, source |-> "manual"]

\* the columns of the patients table: CREATE TABLE and the ALTER TABLE ... ADD
\* COLUMN statements after it
PatientColumns ==
  {"id", "patient_id", "name", "admission_date", "discharge_date",
   "current_stage", "status", "source", "operation", "age", "notes",
   "created_at", "updated_at", "approved_at", "approved_by",
   "assigned_doctor_id", "assigned_doctor_name", "hospitalization_date",
   "rejection_reason", "external_doctor_chat_id"}

\* the patients table has no assigned_slot_id column and approve_patient's
\* update_data names none: a patient row never carries a slot
AssignedSlotId(row) == NULL

\* CREATE TABLE operation_slots
NewSlot(date, st, pid, did) ==
  [date |-> date, status |-> st, patient_id |-> pid, doctor_id |-> did]

\* _seed_doctors: three doctors, all with current_load 0
SeedDoctors ==
  [d \in SeededDoctors |->
     [available |-> TRUE,
      max_patients |-> IF d = "DOC002" THEN 10 ELSE 12,
      current_load |-> 0]]

Response(code, body) == [code |-> code, body |-> body]

EmptyTable == [k \in {} |-> NULL]

\* sync_stats of a PatientSync object after __init__, with the log lines of
\* the records it processed (one outcome per record); status is that of the
\* summary run() returns
NewSyncStats(status) ==
  [status |-> status,
   cyberintern_synced |-> 0, cyberintern_errors |-> 0,
   sheets_synced |-> 0, sheets_errors |-> 0,
   cyberintern_log |-> <<>>, sheets_log |-> <<>>, total_patients |-> 0]

\* no sync job has run yet
NoSummary == NewSyncStats("none")

Init ==
  /\ patients = EmptyTable
  /\ slots = EmptyTable
  /\ doctors = SeedDoctors
  /\ resp = Response(0, "none")
  /\ approvals = [p \in PatientIds |-> 0]
  /\ reqs = EmptyTable
  /\ summary = NoSummary
  /\ runs = EmptyTable

\* ------------------------------------------------- statements (db.update)

\* approve_patient's UPDATE operation_slots: no WHERE on the slot's status
ReserveSlotRow(row, pid, did) ==
  [row EXCEPT !.patient_id = pid, !.doctor_id = did, !.status = "reserved"]

\* approve_patient's UPDATE patients: update_data has no slot column and
\* there is no statement on the doctors table
ApprovePatientRow(row, date, did, by) ==
  [row EXCEPT !.status = "approved", !.approved_by = by,
              !.assigned_doctor_id = did, !.hospitalization_date = date]

\* a rejection that records no reason
RejectPatientRowNoReason(row, reason) ==
  [row EXCEPT !.status = "rejected"]

\* reject_patient's UPDATE patients
RejectPatientRow(row, reason) ==
  [row EXCEPT !.status = "rejected", !.rejection_reason = reason]

\* ghost: successful approvals of a patient, counted up to 2
CountApproval(p) ==
  IF p \in DOMAIN approvals
    THEN [approvals EXCEPT ![p] = IF @ < 2 THEN @ + 1 ELSE @]
    ELSE approvals

\* ------------------------------------------------- REST handlers (atomic)

\* POST /api/patients: inserts the request body as it is; a duplicate
\* patient_id makes db.insert return None, and the answer is 201 either way
CreatePatient(p, st) ==
  /\ patients' = IF p \in DOMAIN patients THEN patients
                 ELSE (p :> NewPatient(st)) @@ patients
  /\ resp' = Response(201, "created")
  /\ UNCHANGED <<slots, doctors, approvals, reqs, summary, runs>>

\* PUT /api/patients/<patient_id>: writes whatever columns the body names
UpdatePatient(p, st) ==
  /\ IF p \notin DOMAIN patients
       THEN /\ resp' = Response(404, "Patient not found")
            /\ UNCHANGED patients
       ELSE /\ patients' = [patients EXCEPT ![p].status = st]
            /\ resp' = Response(200, "success")
  /\ UNCHANGED <<slots, doctors, approvals, reqs, summary, runs>>

\* PUT /api/patients/<patient_id> with a body that names the patient_id column:
\* the row found by the URL's id gets the body's id, unless another row has it
\* (patient_id is UNIQUE: db.update returns False, the answer is 200 all the same)
UpdatePatientId(p, q) ==
  /\ IF p \notin DOMAIN patients
       THEN /\ resp' = Response(404, "Patient not found")
            /\ UNCHANGED patients
       ELSE IF q \in DOMAIN patients \ {p}
         THEN /\ resp' = Response(200, "failure")
              /\ UNCHANGED patients
       ELSE /\ patients' = (q :> patients[p]) @@
                             [k \in DOMAIN patients \ {p} |-> patients[k]]
            /\ resp' = Response(200, "success")
  /\ UNCHANGED <<slots, doctors, approvals, reqs, summary, runs>>

\* PUT /api/patients/<patient_id>/approve with a complete body, handled without
\* interleaving: the tables, the count of approvals and the answer it leaves.
\* slotOk / patOk: the slot statements (lookup and update) resp. the patient
\* update did not raise; the answer is 200 either way.
ApproveResult(p, date, d, s, by, slotOk, patOk) ==
  IF p \notin DOMAIN patients
    THEN [patients |-> patients, slots |-> slots, approvals |-> approvals,
          resp |-> Response(404, "Patient not found")]
  ELSE IF patients[p].status # "pending"
    THEN [patients |-> patients, slots |-> slots, approvals |-> approvals,
          resp |-> Response(400, "Patient is not pending")]
  ELSE [slots |-> IF s \in DOMAIN slots /\ slotOk
                    THEN [slots EXCEPT ![s] = ReserveSlotRow(@, p, d)]
                    ELSE slots,
        patients |-> IF patOk
                       THEN [patients EXCEPT ![p] = ApprovePatientRow(@, date, d, by)]
                       ELSE patients,
        approvals |-> IF patOk THEN CountApproval(p) ELSE approvals,
        resp |-> Response(200, IF patOk THEN "success" ELSE "failure")]

ApprovePatient(p, date, d, s, by, slotOk, patOk) ==
  LET result == ApproveResult(p, date, d, s, by, slotOk, patOk)
  IN /\ patients' = result.patients
     /\ slots' = result.slots
     /\ approvals' = result.approvals
     /\ resp' = result.resp
     /\ UNCHANGED <<doctors, reqs, summary, runs>>

\* PUT /api/patients/<patient_id>/reject with a non-empty rejection_reason: the
\* patients table and the answer it leaves
RejectResult(p, reason, ok) ==
  IF p \notin DOMAIN patients
    THEN [patients |-> patients, resp |-> Response(404, "Patient not found")]
  ELSE IF patients[p].status # "pending"
    THEN [patients |-> patients, resp |-> Response(400, "Patient is not pending")]
  ELSE [patients |-> IF ok THEN [patients EXCEPT ![p] = RejectPatientRow(@, reason)]
                     ELSE patients,
        resp |-> Response(200, IF ok THEN "success" ELSE "failure")]

RejectPatient(p, reason, ok) ==
  LET result == RejectResult(p, reason, ok)
  IN /\ patients' = result.patients
     /\ resp' = result.resp
     /\ UNCHANGED <<slots, doctors, approvals, reqs, summary, runs>>

\* PUT /api/doctors/<id>: db.update appends "updated_at = NOW()", a column the
\* doctors table does not have, so the statement raises and nothing is written
UpdateDoctor(d, load) ==
  /\ resp' = Response(200, "failure")
  /\ UNCHANGED <<patients, slots, doctors, approvals, reqs, summary, runs>>

\* a doctor_id and the bodies of POST /api/doctors: with the columns' defaults,
\* and with a load that has reached max_patients
NewDoctorId == "DOC004"
DoctorBodies ==
  {[available |-> TRUE, max_patients |-> 12, current_load |-> 0],
   [available |-> TRUE, max_patients |-> 1, current_load |-> 1]}

\* POST /api/doctors: inserts the request body as it is; a doctor_id that
\* exists makes db.insert return None, and the answer is 201 either way
CreateDoctor(d, body) ==
  /\ doctors' = IF d \in DOMAIN doctors THEN doctors ELSE (d :> body) @@ doctors
  /\ resp' = Response(201, "created")
  /\ UNCHANGED <<patients, slots, approvals, reqs, summary, runs>>

\* bodies of POST /api/operation-slots: the plain one, and one naming a patient
PlainSlot == [status |-> "available", patient_id |-> NULL]
SlotBodies == {PlainSlot, [status |-> "available", patient_id |-> "P1"]}

\* POST /api/operation-slots: inserts the request body as it is
CreateOperationSlot(s, date, body) ==
  /\ slots' = IF s \in DOMAIN slots THEN slots
              ELSE (s :> NewSlot(date, body.status, body.patient_id, NULL)) @@ slots
  /\ resp' = Response(201, "created")
  /\ UNCHANGED <<patients, doctors, approvals, reqs, summary, runs>>

\* PUT /api/operation-slots/<id>/reserve: an UPDATE by row id, whatever the
\* slot's status and whoever the patient; an unknown id updates no row
ReserveOperationSlot(s, pid, did) ==
  /\ slots' = IF s \in DOMAIN slots
                THEN [slots EXCEPT ![s] = ReserveSlotRow(@, pid, did)]
                ELSE slots
  /\ resp' = Response(200, "success")
  /\ UNCHANGED <<patients, doctors, approvals, reqs, summary, runs>>

\* GET /api/patients/pending: SELECT * FROM patients WHERE status = 'pending'
\* AND source = 'telegram'; rows are the patient_ids of the answer
ListPendingPatients ==
  /\ resp' = [code |-> 200, body |-> "pending patients",
              rows |-> {p \in DOMAIN patients :
                          /\ patients[p].status = "pending"
                          /\ patients[p].source = "telegram"}]
  /\ UNCHANGED <<patients, slots, doctors, approvals, reqs, summary, runs>>

\* GET /api/operation-slots?date=&status=: status_filter is
\* request.args.get("status", "available"); NULL stands for an argument that is
\* not given. Without a date the query has LIMIT 50, more than the slots here.
ListOperationSlots(date, status) ==
  /\ LET status_filter == IF status = NULL THEN "available" ELSE status
     IN resp' = [code |-> 200, body |-> "operation slots",
                 rows |-> {s \in DOMAIN slots :
                             /\ date = NULL \/ slots[s].date = date
                             /\ slots[s].status = status_filter}]
  /\ UNCHANGED <<patients, slots, doctors, approvals, reqs, summary, runs>>

\* ------------------------------------------------- spreadsheet import

SheetStatuses == {"pending", "discharged"}
SheetRows == [patient_id : PatientIds \cup {""}, status : SheetStatuses]
SheetRecords == UNION {[1..n -> SheetRows] : n \in 0..MaxRows}

\* one record of _sync_patients_from_sheets: skipped without a Patient ID,
\* else the row's Status overwrites the patient's, or a new patient is inserted
SyncRecord(tbl, rec) ==
  IF rec.patient_id = "" THEN tbl
  ELSE IF rec.patient_id \in DOMAIN tbl
  THEN [tbl EXCEPT ![rec.patient_id].status = rec.status]
  ELSE (rec.patient_id :> NewPatient(rec.status)) @@ tbl

RECURSIVE SyncRecords(_, _)
SyncRecords(tbl, records) ==
  IF records = <<>> THEN tbl
  ELSE SyncRecords(SyncRecord(tbl, Head(records)), Tail(records))

\* GoogleSheetsSync._sync_patients_from_sheets over the sheet's records
SyncPatientsFromSheets(records) ==
  /\ patients' = SyncRecords(patients, records)
  /\ UNCHANGED <<slots, doctors, resp, approvals, reqs, summary, runs>>

\* _sync_patients_from_sheets record by record: ws.get_all_records() reads the
\* sheet once, the loop then queries and writes one record after the other.
\* seen: the statuses of the patients table when the sheet was read
StartSheetsImport(r, records) ==
  /\ r \notin DOMAIN reqs
  /\ reqs' = (r :> [pc |-> "upsert", pid |-> NULL, slot |-> NULL, slot_seen |-> NULL,
                    records |-> records,
                    seen |-> [p \in DOMAIN patients |-> patients[p].status],
                    result |-> Response(0, "none")]) @@ reqs
  /\ UNCHANGED <<patients, slots, doctors, resp, approvals, summary, runs>>

\* one turn of the loop: the SELECT and the UPDATE or INSERT of one record;
\* after the last record the import returns
SheetsUpsert(r) ==
  /\ r \in DOMAIN reqs /\ reqs[r].pc = "upsert"
  /\ IF reqs[r].records = <<>>
       THEN /\ reqs' = [reqs EXCEPT ![r].pc = "done"]
            /\ UNCHANGED patients
       ELSE /\ patients' = SyncRecord(patients, Head(reqs[r].records))
            /\ reqs' = [reqs EXCEPT ![r].records = Tail(@)]
  /\ UNCHANGED <<slots, doctors, resp, approvals, summary, runs>>

\* ------------------------------------------------- approve, statement by statement

\* Flask serves requests in threads (app.run) or gunicorn workers: between two
\* statements of one handler the statements of another may run.
RequestIds == {"r1", "r2"}

StatusOf(tbl, k) == IF k \in DOMAIN tbl THEN tbl[k].status ELSE NULL

\* the request arrives; slot_seen is the slot's status at that moment
StartApprove(r, p, date, d, s, by) ==
  /\ r \notin DOMAIN reqs
  /\ reqs' = (r :> [pc |-> "read_patient", pid |-> p, slot |-> s, doctor |-> d,
                    date |-> date, by |-> by, slot_seen |-> StatusOf(slots, s),
                    result |-> Response(0, "none")]) @@ reqs
  /\ UNCHANGED <<patients, slots, doctors, resp, approvals, summary, runs>>

Finish(r, code, body) ==
  reqs' = [reqs EXCEPT ![r].pc = "done", ![r].result = Response(code, body)]

\* SELECT * FROM patients WHERE patient_id, the two early returns, and the
\* doctor's name (read, never checked)
ApproveReadPatient(r) ==
  /\ r \in DOMAIN reqs /\ reqs[r].pc = "read_patient"
  /\ IF reqs[r].pid \notin DOMAIN patients
       THEN Finish(r, 404, "Patient not found")
       ELSE IF patients[reqs[r].pid].status # "pending"
       THEN Finish(r, 400, "Patient is not pending")
       ELSE reqs' = [reqs EXCEPT ![r].pc = "read_slot"]
  /\ UNCHANGED <<patients, slots, doctors, resp, approvals, summary, runs>>

\* SELECT id FROM operation_slots WHERE slot_id
ApproveReadSlot(r) ==
  /\ r \in DOMAIN reqs /\ reqs[r].pc = "read_slot"
  /\ reqs' = [reqs EXCEPT ![r].pc = IF reqs[r].slot \in DOMAIN slots
                                      THEN "write_slot" ELSE "write_patient"]
  /\ UNCHANGED <<patients, slots, doctors, resp, approvals, summary, runs>>

\* UPDATE operation_slots ... WHERE id
ApproveWriteSlot(r, ok) ==
  /\ r \in DOMAIN reqs /\ reqs[r].pc = "write_slot"
  /\ slots' = IF ok THEN [slots EXCEPT ![reqs[r].slot] =
                            ReserveSlotRow(@, reqs[r].pid, reqs[r].doctor)]
              ELSE slots
  /\ reqs' = [reqs EXCEPT ![r].pc = "write_patient"]
  /\ UNCHANGED <<patients, doctors, resp, approvals, summary, runs>>

\* UPDATE patients ... WHERE id, and the answer
ApproveWritePatient(r, ok) ==
  /\ r \in DOMAIN reqs /\ reqs[r].pc = "write_patient"
  /\ patients' = IF ok THEN [patients EXCEPT ![reqs[r].pid] =
                   ApprovePatientRow(@, reqs[r].date, reqs[r].doctor, reqs[r].by)]
                 ELSE patients
  /\ approvals' = IF ok THEN CountApproval(reqs[r].pid) ELSE approvals
  /\ Finish(r, 200, IF ok THEN "success" ELSE "failure")
  /\ UNCHANGED <<slots, doctors, resp, summary, runs>>

\* ------------------------------------------------- reject, statement by statement

\* the request arrives
StartReject(r, p, reason) ==
  /\ r \notin DOMAIN reqs
  /\ reqs' = (r :> [pc |-> "reject_read_patient", pid |-> p, slot |-> NULL,
                    reason |-> reason, slot_seen |-> NULL,
                    result |-> Response(0, "none")]) @@ reqs
  /\ UNCHANGED <<patients, slots, doctors, resp, approvals, summary, runs>>

\* SELECT * FROM patients WHERE patient_id and the two early returns
RejectReadPatient(r) ==
  /\ r \in DOMAIN reqs /\ reqs[r].pc = "reject_read_patient"
  /\ IF reqs[r].pid \notin DOMAIN patients
       THEN Finish(r, 404, "Patient not found")
       ELSE IF patients[reqs[r].pid].status # "pending"
       THEN Finish(r, 400, "Patient is not pending")
       ELSE reqs' = [reqs EXCEPT ![r].pc = "reject_write_patient"]
  /\ UNCHANGED <<patients, slots, doctors, resp, approvals, summary, runs>>

\* UPDATE patients ... WHERE id, and the answer
RejectWritePatient(r, ok) ==
  /\ r \in DOMAIN reqs /\ reqs[r].pc = "reject_write_patient"
  /\ patients' = IF ok THEN [patients EXCEPT ![reqs[r].pid] =
                   RejectPatientRow(@, reqs[r].reason)]
                 ELSE patients
  /\ Finish(r, 200, IF ok THEN "success" ELSE "failure")
  /\ UNCHANGED <<slots, doctors, resp, approvals, summary, runs>>

\* ------------------------------------------------- weekly slot generation

\* dates of 2026, as the day of the year
DaysInMonth == <<31, 28, 31, 30, 31, 30, 31, 31, 30, 31, 30, 31>>

RECURSIVE DaysBefore(_)
DaysBefore(m) == IF m = 1 THEN 0 ELSE DaysBefore(m - 1) + DaysInMonth[m - 1]

MonthOf(date) ==
  CHOOSE m \in 1..12 : DaysBefore(m) < date /\ date <= DaysBefore(m) + DaysInMonth[m]

\* slot_date.strftime('%Y%m%d'), the eight digits read as a number
Strftime(date) == 2026 * 10000 + MonthOf(date) * 100 + (date - DaysBefore(MonthOf(date)))

\* date.weekday(): Monday is 0 and Sunday 6; 1 January 2026 is a Thursday
Weekday(date) == (date + 2) % 7

\* start_date of the body: Monday 2026-02-09, Wednesday 2026-02-11 and
\* Thursday 2026-02-26
StartDates == {40, 42, 57}

\* f"SLOT_{date}_{or_room}_{shift}": the parts the underscores join
SlotIdOf(date, or_room, shift) == <<"SLOT", Strftime(date), or_room, shift>>

\* OR-1 and OR-2 in the morning, OR-3 in the afternoon
WeeklyTemplate == {<<"OR-1", "AM">>, <<"OR-2", "AM">>, <<"OR-3", "PM">>}

\* the (date, room, shift) of one call: range(5) days from start
WeekTriples(start) ==
  {<<start + day_offset, t[1], t[2]>> : day_offset \in 0..4, t \in WeeklyTemplate}

WeekIds(start) == {SlotIdOf(t[1], t[2], t[3]) : t \in WeekTriples(start)}

\* POST /api/operation-slots/generate-weekly: fifteen db.insert calls. An
\* insert of a slot_id that exists violates UNIQUE, which db.insert swallows
\* (it returns None and never raises), so created_count is incremented after
\* every call whether or not a row was inserted.
GenerateWeeklySlots(start) ==
  /\ slots' = [k \in DOMAIN slots \cup WeekIds(start) |->
                 IF k \in DOMAIN slots THEN slots[k]
                 ELSE LET t == CHOOSE t \in WeekTriples(start) :
                                 SlotIdOf(t[1], t[2], t[3]) = k
                      IN NewSlot(t[1], "available", NULL, NULL)]
  /\ resp' = [code |-> 201, body |-> "created",
              created |-> Cardinality(WeekTriples(start))]
  /\ UNCHANGED <<patients, doctors, approvals, reqs, summary, runs>>

\* ------------------------------------------------- daily sync job

\* patients of the EMR's answer processed by one run of the job
MaxDrafts == 3

\* cursor.execute raises when the statement names a column the patients table
\* does not have; the job catches it per record and counts an error
Executes(columns) == columns \subseteq PatientColumns

\* the columns of the four statements of sync_patients_daily.py
CyberinternUpdateColumns ==
  {"name", "status", "source", "external_id", "last_synced_at"}
CyberinternInsertColumns ==
  {"patient_id", "name", "admission_date", "status", "source", "external_id",
   "last_synced_at"}
PlannedUpdateColumns ==
  {"operation_type", "planned_admission_date", "priority", "status", "source",
   "last_synced_at"}
PlannedInsertColumns ==
  {"patient_id", "name", "operation_type", "planned_admission_date", "priority",
   "status", "source", "last_synced_at"}

\* patients of the EMR's answer: well formed, without a name, without an id
EmrGood == [id |-> "P1", name |-> DefaultName, status |-> "active"]
EmrDrafts == {EmrGood, [EmrGood EXCEPT !.name = ""], [EmrGood EXCEPT !.id = ""]}
EmrBatches == UNION {[1..n -> EmrDrafts] : n \in 0..MaxDrafts}
\* the GET succeeded with a list of patients, or raised / was not answered 200
EmrResponses ==
  {[ok |-> FALSE, patients |-> <<>>]} \cup {[ok |-> TRUE, patients |-> b] : b \in EmrBatches}

\* rows of the "Planned Patients" sheet: with a Patient ID, without one (now is
\* the clock the generated id is taken from), without a Name
SheetGood == [patient_id |-> "P2", name |-> DefaultName, status |-> "planned", now |-> 1]
PlannedRows ==
  {SheetGood, [SheetGood EXCEPT !.patient_id = ""], [SheetGood EXCEPT !.name = ""]}
PlannedBatches == UNION {[1..n -> PlannedRows] : n \in 0..MaxRows}
SheetResponses ==
  {[ok |-> FALSE, patients |-> <<>>]} \cup {[ok |-> TRUE, patients |-> b] : b \in PlannedBatches}

\* f"PL{datetime.now().timestamp()}"
GeneratedId(now) == IF now = 1 THEN "PL1" ELSE "PL2"

\* what one pass over a source's records has done so far
NewPass(tbl) == [tbl |-> tbl, synced |-> 0, errors |-> 0, log |-> <<>>]

Skipped(st) == [st EXCEPT !.log = Append(@, "skipped")]
Failed(st) == [st EXCEPT !.errors = @ + 1, !.log = Append(@, "error")]

\* the loop body of _process_cyberintern_patients
ProcessCyberinternPatient(st, patient) ==
  IF patient.id = "" \/ patient.name = "" THEN Skipped(st)
  ELSE IF patient.id \in DOMAIN st.tbl
  THEN IF Executes(CyberinternUpdateColumns)
         THEN [st EXCEPT !.tbl[patient.id].name = patient.name,
                         !.tbl[patient.id].status = patient.status,
                         !.tbl[patient.id].source = "cyberintern",
                         !.synced = @ + 1, !.log = Append(@, "updated")]
         ELSE Failed(st)
  ELSE IF Executes(CyberinternInsertColumns)
         THEN [st EXCEPT !.tbl = (patient.id :>
                                    [NewPatient(patient.status) EXCEPT
                                       !.name = patient.name,
                                       !.source = "cyberintern"]) @@ @,
                         !.synced = @ + 1, !.log = Append(@, "created")]
         ELSE Failed(st)

RECURSIVE ProcessCyberinternPatients(_, _)
ProcessCyberinternPatients(st, patients_) ==
  IF patients_ = <<>> THEN st
  ELSE ProcessCyberinternPatients(ProcessCyberinternPatient(st, Head(patients_)),
                                  Tail(patients_))

\* row["Patient ID"] or the generated id
PlannedId(patient) ==
  IF patient.patient_id # "" THEN patient.patient_id ELSE GeneratedId(patient.now)

\* SELECT id FROM patients WHERE patient_id = %s OR (name = %s AND source = 'external')
PlannedMatch(tbl, patient) ==
  {k \in DOMAIN tbl : \/ k = PlannedId(patient)
                      \/ tbl[k].name = patient.name /\ tbl[k].source = "external"}

\* the loop body of _process_planned_patients
ProcessPlannedPatient(st, patient) ==
  IF patient.name = "" THEN Skipped(st)
  ELSE IF PlannedMatch(st.tbl, patient) # {}
  THEN IF Executes(PlannedUpdateColumns)
         THEN LET k == CHOOSE k \in PlannedMatch(st.tbl, patient) : TRUE
              IN [st EXCEPT !.tbl[k].status = patient.status,
                            !.tbl[k].source = "external",
                            !.synced = @ + 1, !.log = Append(@, "updated")]
         ELSE Failed(st)
  ELSE IF Executes(PlannedInsertColumns)
         THEN [st EXCEPT !.tbl = (PlannedId(patient) :>
                                    [NewPatient(patient.status) EXCEPT
                                       !.name = patient.name,
                                       !.source = "external"]) @@ @,
                         !.synced = @ + 1, !.log = Append(@, "created")]
         ELSE Failed(st)

RECURSIVE ProcessPlannedPatients(_, _)
ProcessPlannedPatients(st, patients_) ==
  IF patients_ = <<>> THEN st
  ELSE ProcessPlannedPatients(ProcessPlannedPatient(st, Head(patients_)),
                              Tail(patients_))

\* sync_cyberintern_patients: a failed request is logged as a warning and the
\* method returns 0; cyberintern_errors is not touched
SyncCyberinternPatients(tbl, emr) ==
  IF emr.ok THEN ProcessCyberinternPatients(NewPass(tbl), emr.patients)
  ELSE NewPass(tbl)

\* sync_planned_patients_from_sheets: a failed read is logged as a warning and
\* the method returns 0; sheets_errors is not touched
SyncPlannedPatientsFromSheets(tbl, sheet) ==
  IF sheet.ok THEN ProcessPlannedPatients(NewPass(tbl), sheet.patients)
  ELSE NewPass(tbl)

\* PatientSync().run(): both sources in turn, then get_summary
Run(emr, sheet) ==
  LET c == SyncCyberinternPatients(patients, emr)
      p == SyncPlannedPatientsFromSheets(c.tbl, sheet)
  IN /\ patients' = p.tbl
     /\ summary' = [status |-> "success",
                    cyberintern_synced |-> c.synced,
                    cyberintern_errors |-> c.errors,
                    sheets_synced |-> p.synced,
                    sheets_errors |-> p.errors,
                    cyberintern_log |-> c.log,
                    sheets_log |-> p.log,
                    total_patients |-> Cardinality(DOMAIN p.tbl)]
     /\ UNCHANGED <<slots, doctors, resp, approvals, reqs, runs>>

\* ------------------------------------------------- daily sync job, statement by statement

\* two runs of the job at once (two PatientSync processes, each with its own
\* autocommit connection): between the SELECT and the write of one record the
\* statements of the other run may execute
SyncRuns == {"run1", "run2"}

\* the rows without a Patient ID the two runs read, each at its own clock
UnidentifiedRows == {[SheetGood EXCEPT !.patient_id = "", !.now = n] : n \in {1, 2}}

NewRecordRun(kind, patient_id, name, status) ==
  [pc |-> "match", kind |-> kind, patient_id |-> patient_id, name |-> name,
   status |-> status, existing |-> {}, outcome |-> "none"]

\* _process_cyberintern_patients reaches a well-formed patient
StartCyberintern(r, patient) ==
  /\ r \notin DOMAIN runs
  /\ patient.id # "" /\ patient.name # ""
  /\ runs' = (r :> NewRecordRun("cyberintern", patient.id, patient.name,
                                patient.status)) @@ runs
  /\ UNCHANGED <<patients, slots, doctors, resp, approvals, reqs, summary>>

\* _process_planned_patients reaches a row with a name
StartPlanned(r, patient) ==
  /\ r \notin DOMAIN runs
  /\ patient.name # ""
  /\ runs' = (r :> NewRecordRun("planned", PlannedId(patient), patient.name,
                                patient.status)) @@ runs
  /\ UNCHANGED <<patients, slots, doctors, resp, approvals, reqs, summary>>

\* the SELECT of either method
RecordMatch(r) ==
  /\ r \in DOMAIN runs /\ runs[r].pc = "match"
  /\ runs' = [runs EXCEPT
       ![r].pc = "write",
       ![r].existing =
          {k \in DOMAIN patients :
             \/ k = runs[r].patient_id
             \/ /\ runs[r].kind = "planned"
                /\ patients[k].name = runs[r].name
                /\ patients[k].source = "external"}]
  /\ UNCHANGED <<patients, slots, doctors, resp, approvals, reqs, summary>>

\* the UPDATE when the SELECT found a row, else the INSERT; the INSERT also
\* raises when a row with the patient_id exists by now (patient_id is UNIQUE)
RecordWrite(r) ==
  /\ r \in DOMAIN runs /\ runs[r].pc = "write"
  /\ LET run == runs[r]
         source == IF run.kind = "planned" THEN "external" ELSE "cyberintern"
         updates == Executes(IF run.kind = "planned" THEN PlannedUpdateColumns
                             ELSE CyberinternUpdateColumns)
         inserts == /\ Executes(IF run.kind = "planned" THEN PlannedInsertColumns
                                ELSE CyberinternInsertColumns)
                    /\ run.patient_id \notin DOMAIN patients
     IN IF run.existing # {}
          THEN /\ patients' =
                    IF updates
                      THEN LET k == CHOOSE k \in run.existing : TRUE
                           IN [patients EXCEPT ![k].status = run.status,
                                               ![k].source = source]
                      ELSE patients
               /\ runs' = [runs EXCEPT ![r].pc = "done",
                             ![r].outcome = IF updates THEN "updated" ELSE "error"]
          ELSE /\ patients' =
                    IF inserts
                      THEN (run.patient_id :>
                              [NewPatient(run.status) EXCEPT
                                 !.name = run.name, !.source = source]) @@ patients
                      ELSE patients
               /\ runs' = [runs EXCEPT ![r].pc = "done",
                             ![r].outcome = IF inserts THEN "created" ELSE "error"]
  /\ UNCHANGED <<slots, doctors, resp, approvals, reqs, summary>>

\* ------------------------------------------------- daily sync job, call by call

\* run() of one PatientSync process: the request to the EMR, the read of the
\* sheet and get_summary, one after the other
JobStart(j) ==
  /\ j \notin DOMAIN runs
  /\ runs' = (j :> [pc |-> "emr_call", cyberintern |-> NewPass(EmptyTable),
                    sheets |-> NewPass(EmptyTable)]) @@ runs
  /\ UNCHANGED <<patients, slots, doctors, resp, approvals, reqs, summary>>

\* requests.get(..., timeout=10) returns: an answer, an error or the timeout
\* (emr.ok false); on an answer the patients are processed
EmrReturns(j, emr) ==
  /\ j \in DOMAIN runs /\ runs[j].pc = "emr_call"
  /\ LET c == SyncCyberinternPatients(patients, emr)
     IN /\ patients' = c.tbl
        /\ runs' = [runs EXCEPT ![j].pc = "sheet_call",
                                ![j].cyberintern = [c EXCEPT !.tbl = EmptyTable]]
  /\ UNCHANGED <<slots, doctors, resp, approvals, reqs, summary>>

\* gc.open_by_key / sheet.worksheet / get_all_records return: the records or
\* an error (sheet.ok false); the calls are made without a timeout
SheetReturns(j, sheet) ==
  /\ j \in DOMAIN runs /\ runs[j].pc = "sheet_call"
  /\ LET p == SyncPlannedPatientsFromSheets(patients, sheet)
     IN /\ patients' = p.tbl
        /\ runs' = [runs EXCEPT ![j].pc = "summary",
                                ![j].sheets = [p EXCEPT !.tbl = EmptyTable]]
  /\ UNCHANGED <<slots, doctors, resp, approvals, reqs, summary>>

\* get_summary and the return of run()
JobSummary(j) ==
  /\ j \in DOMAIN runs /\ runs[j].pc = "summary"
  /\ summary' = [status |-> "success",
                 cyberintern_synced |-> runs[j].cyberintern.synced,
                 cyberintern_errors |-> runs[j].cyberintern.errors,
                 sheets_synced |-> runs[j].sheets.synced,
                 sheets_errors |-> runs[j].sheets.errors,
                 cyberintern_log |-> runs[j].cyberintern.log,
                 sheets_log |-> runs[j].sheets.log,
                 total_patients |-> Cardinality(DOMAIN patients)]
  /\ runs' = [runs EXCEPT ![j].pc = "done"]
  /\ UNCHANGED <<patients, slots, doctors, resp, approvals, reqs>>

\* ------------------------------------------------- Telegram webhook

\* A message text is the sequence of its words, a comma being a token of its
\* own: "Ahmed Ali, 45" is <<"Ahmed", "Ali", ",", "45">>.
Comma == ","

ChatIds == {7, 71}

\* int(datetime.now().timestamp()): seconds since the epoch, ten digits
Epoch == 1762300800
MaxTick == 0
Clock == {Epoch + k : k \in 0..MaxTick}

SubmissionText == <<"Ahmed", "Ali", Comma, "45", Comma, "Appendectomy", Comma, "urgent">>
PlainReason == <<"duplicate", "request">>
CommaReason == <<"no", "beds", Comma, "no", "staff", Comma, "sorry">>

\* the texts a chat sends, ids being the patient ids and reasons the reasons
\* of rejection it may name
ChatTexts(ids, reasons) ==
  {SubmissionText, <<"/addpatient">> \o SubmissionText, <<"/addpatient">>,
   <<"/start">>, <<"/help">>, <<"/pending">>, <<"/status">>, <<"hello">>}
  \cup {<<"/approve", p, date, d>> : p \in ids, date \in Dates, d \in ApproveDoctors}
  \cup {<<"/approve", p>> : p \in ids}
  \cup {<<"/reject", p>> \o reason : p \in ids, reason \in reasons}
  \cup {<<"/reject", p>> : p \in ids}

RECURSIVE Join(_)
\* the words of a piece of text, as the text they were
Join(words) ==
  IF words = <<>> THEN ""
  ELSE IF Len(words) = 1 THEN words[1]
  ELSE words[1] \o " " \o Join(Tail(words))

RECURSIVE Split(_)
\* text.split(): the words between whitespace; a comma belongs to the word
\* before it
Split(text) ==
  IF text = <<>> THEN <<>>
  ELSE IF Len(text) > 1 /\ text[2] = Comma
    THEN Split(<<text[1] \o Comma>> \o SubSeq(text, 3, Len(text)))
  ELSE <<text[1]>> \o Split(Tail(text))

RECURSIVE SplitComma(_)
\* text.split(","), each part stripped
SplitComma(text) ==
  LET commas == {i \in 1..Len(text) : text[i] = Comma}
  IN IF commas = {} THEN <<Join(text)>>
     ELSE LET i == CHOOSE i \in commas : \A j \in commas : i <= j
          IN <<Join(SubSeq(text, 1, i - 1))>> \o SplitComma(SubSeq(text, i + 1, Len(text)))

\* text.replace(cmd, "").strip()
Replace(text, cmd) == SelectSeq(text, LAMBDA w : w # cmd)

\* text.lower().startswith(cmd)
StartsWith(text, cmd) == text # <<>> /\ text[1] = cmd

\* text.lower().startswith(cmd + " "): the text is stripped, so a word follows
StartsWithSpace(text, cmd) == Len(text) > 1 /\ text[1] = cmd /\ text[2] # Comma

\* "," in text and len(text.split(",")) >= 3
PatientPattern(text) == Len(SplitComma(text)) >= 3

\* a patient id that takes no chat id into account
ChatPatientIdOfClock(chat_id, now) == "EX" \o ToString(now)

\* pid = f"EX{chat_id}{int(datetime.now().timestamp())}"
ChatPatientId(chat_id, now) == "EX" \o ToString(chat_id) \o ToString(now)

\* the INSERT of a chat submission: the row it adds
ChatPatient(name) ==
  [NewPatient("pending") EXCEPT !.name = name, !.source = "telegram"]

\* SELECT * FROM operation_slots WHERE date = %s AND status = 'available'
AvailableSlots(date) ==
  {s \in DOMAIN slots : slots[s].date = date /\ slots[s].status = "available"}

\* what handle_telegram leaves before it sends its reply
Handled(tbl, sl, ap, reply) ==
  [patients |-> tbl, slots |-> sl, approvals |-> ap, reply |-> reply]

\* the branches of handle_telegram in the order of the code. s: the row
\* slots[0] of the query without ORDER BY; apiOk: the request to the server's
\* own REST route got an answer.
TelegramDispatch(chat_id, text, now, s, apiOk) ==
  IF StartsWith(text, "/start") THEN Handled(patients, slots, approvals, "welcome")
  ELSE IF StartsWith(text, "/help") THEN Handled(patients, slots, approvals, "help")
  ELSE IF StartsWith(text, "/pending") THEN Handled(patients, slots, approvals, "pending list")
  ELSE IF StartsWith(text, "/addpatient") /\ Comma \notin {text[i] : i \in 1..Len(text)}
    THEN Handled(patients, slots, approvals, "addpatient help")
  ELSE IF PatientPattern(text)
    THEN LET parts == SplitComma(Replace(text, "/addpatient"))
             pid == ChatPatientId(chat_id, now)
         IN Handled(IF pid \in DOMAIN patients THEN patients
                    ELSE (pid :> ChatPatient(parts[1])) @@ patients,
                    slots, approvals, "recorded")
  ELSE IF StartsWithSpace(text, "/approve")
    THEN LET parts == Split(text)
         IN IF Len(parts) < 4
              THEN Handled(patients, slots, approvals, "approve format")
            ELSE IF AvailableSlots(parts[3]) = {}
              THEN Handled(patients, slots, approvals, "no available slots")
            ELSE IF ~apiOk
              THEN Handled(patients, slots, approvals, "error")
            ELSE LET result == ApproveResult(parts[2], parts[3], parts[4], s,
                                             "admin", TRUE, TRUE)
                 IN Handled(result.patients, result.slots, result.approvals,
                            IF result.resp.code = 200 THEN "approved"
                            ELSE "error approving")
  ELSE IF StartsWithSpace(text, "/reject")
    THEN LET parts == Split(text)
         IN IF Len(parts) < 3
              THEN Handled(patients, slots, approvals, "reject format")
            ELSE IF ~apiOk
              THEN Handled(patients, slots, approvals, "error")
            ELSE LET result == RejectResult(parts[2],
                                            Join(SubSeq(parts, 3, Len(parts))), TRUE)
                 IN Handled(result.patients, slots, approvals,
                            IF result.resp.code = 200 THEN "rejected"
                            ELSE "error rejecting")
  ELSE IF StartsWith(text, "/status") \/ text = <<"status">>
    THEN Handled(patients, slots, approvals, "status")
  ELSE Handled(patients, slots, approvals, "default")

\* the rows slots[0] may be when the text reaches the approve branch's query
SlotChoices(text) ==
  IF /\ ~StartsWith(text, "/start") /\ ~StartsWith(text, "/help")
     /\ ~StartsWith(text, "/pending") /\ ~PatientPattern(text)
     /\ StartsWithSpace(text, "/approve") /\ Len(Split(text)) >= 4
     /\ AvailableSlots(Split(text)[3]) # {}
    THEN AvailableSlots(Split(text)[3])
    ELSE {NULL}

\* the readings of the clock that tell: only the submission branch reads it
ClockChoices(text) == IF PatientPattern(text) THEN Clock ELSE {Epoch}

\* the outcomes of the request to the server's own route, for the texts that
\* make one
ApiChoices(text) ==
  IF StartsWithSpace(text, "/approve") \/ StartsWithSpace(text, "/reject")
    THEN BOOLEAN ELSE {TRUE}

\* a handler that undoes its writes when the reply is not delivered
TelegramResultUndoing(chat_id, text, now, s, apiOk, sendOk) ==
  LET handled == TelegramDispatch(chat_id, text, now, s, apiOk)
  IN IF sendOk
       THEN [handled EXCEPT !.reply = <<handled.reply, TRUE>>]
       ELSE Handled(patients, slots, approvals, <<handled.reply, FALSE>>)

\* handle_telegram with its send_telegram_reply: every write is committed
\* before the send, and the send's result (sendOk) is only logged
TelegramResult(chat_id, text, now, s, apiOk, sendOk) ==
  LET handled == TelegramDispatch(chat_id, text, now, s, apiOk)
  IN [handled EXCEPT !.reply = <<handled.reply, sendOk>>]

\* POST /webhook/telegram with a message that has a chat id and a text; the
\* answer is 200 {"ok": true} on every path
HandleTelegram(chat_id, text, now, s, apiOk, sendOk) ==
  LET result == TelegramResult(chat_id, text, now, s, apiOk, sendOk)
  IN /\ s \in SlotChoices(text)
     /\ patients' = result.patients
     /\ slots' = result.slots
     /\ approvals' = result.approvals
     /\ resp' = [code |-> 200, body |-> "ok", reply |-> result.reply[1],
                 delivered |-> result.reply[2]]
     /\ UNCHANGED <<doctors, reqs, summary, runs>>

\* ------------------------------------------------- chat /approve, call by call

\* the /approve branch up to its choice of a slot: without an available slot
\* of the date it replies and returns, else it goes on with slots[0]
StartChatApprove(r, p, date, d, s) ==
  /\ r \notin DOMAIN reqs
  /\ IF AvailableSlots(date) = {}
       THEN /\ s = NULL
            /\ reqs' = (r :> [pc |-> "done", pid |-> p, slot |-> NULL, doctor |-> d,
                              date |-> date, by |-> "admin", slot_seen |-> NULL,
                              result |-> Response(200, "no available slots")]) @@ reqs
       ELSE /\ s \in AvailableSlots(date)
            /\ reqs' = (r :> [pc |-> "chat_call", pid |-> p, slot |-> s, doctor |-> d,
                              date |-> date, by |-> "admin", slot_seen |-> "available",
                              result |-> Response(0, "none")]) @@ reqs
  /\ UNCHANGED <<patients, slots, doctors, resp, approvals, summary, runs>>

\* requests.put to /api/patients/<id>/approve with the chosen slot, and the
\* reply made of its status code
ChatApproveCall(r) ==
  /\ r \in DOMAIN reqs /\ reqs[r].pc = "chat_call"
  /\ LET result == ApproveResult(reqs[r].pid, reqs[r].date, reqs[r].doctor,
                                 reqs[r].slot, reqs[r].by, TRUE, TRUE)
     IN /\ patients' = result.patients
        /\ slots' = result.slots
        /\ approvals' = result.approvals
        /\ Finish(r, 200, IF result.resp.code = 200 THEN "approved"
                          ELSE "error approving")
  /\ UNCHANGED <<doctors, resp, summary, runs>>

\* ------------------------------------------------- specifications

\* every handler, one request at a time
Next ==
  \/ \E p \in PatientIds, st \in {"pending"} : CreatePatient(p, st)
  \/ \E p \in PatientIds, st \in PatientStatuses : UpdatePatient(p, st)
  \/ \E p \in PatientIds, date \in Dates, d \in ApproveDoctors,
        s \in SlotIds \cup {UnknownSlot}, by \in Approvers,
        slotOk \in BOOLEAN, patOk \in BOOLEAN :
          ApprovePatient(p, date, d, s, by, slotOk, patOk)
  \/ \E p \in PatientIds, reason \in Reasons, ok \in BOOLEAN :
          RejectPatient(p, reason, ok)
  \/ \E d \in SeededDoctors, load \in {1} : UpdateDoctor(d, load)
  \/ \E s \in SlotIds, date \in Dates, body \in SlotBodies :
          CreateOperationSlot(s, date, body)
  \/ \E s \in SlotIds \cup {UnknownSlot}, pid \in PatientIds,
        did \in {NULL} : ReserveOperationSlot(s, pid, did)
  \/ \E records \in SheetRecords : SyncPatientsFromSheets(records)

Spec == Init /\ [][Next]_vars

\* the approval workflow alone: patients and plain slots are created, then
\* approved or rejected, one request at a time, and every statement succeeds
NextWorkflow ==
  \/ \E p \in PatientIds : CreatePatient(p, "pending")
  \/ \E s \in SlotIds, date \in Dates : CreateOperationSlot(s, date, PlainSlot)
  \/ \E p \in PatientIds, date \in Dates, d \in ApproveDoctors,
        s \in SlotIds \cup {UnknownSlot}, by \in Approvers :
          ApprovePatient(p, date, d, s, by, TRUE, TRUE)
  \/ \E p \in PatientIds, reason \in Reasons : RejectPatient(p, reason, TRUE)

SpecWorkflow == Init /\ [][NextWorkflow]_vars

\* two approve requests whose statements interleave; every statement succeeds
NextConc ==
  \/ \E p \in PatientIds : CreatePatient(p, "pending")
  \/ \E s \in SlotIds, date \in Dates : CreateOperationSlot(s, date, PlainSlot)
  \/ \E r \in RequestIds, p \in PatientIds, date \in Dates, d \in ApproveDoctors,
        s \in SlotIds, by \in Approvers : StartApprove(r, p, date, d, s, by)
  \/ \E r \in RequestIds : ApproveReadPatient(r)
  \/ \E r \in RequestIds : ApproveReadSlot(r)
  \/ \E r \in RequestIds : ApproveWriteSlot(r, TRUE)
  \/ \E r \in RequestIds : ApproveWritePatient(r, TRUE)

SpecConc == Init /\ [][NextConc]_vars

\* approve requests that name any patient, slot and doctor, known or not
NextApproveIds ==
  \/ \E p \in PatientIds : CreatePatient(p, "pending")
  \/ \E s \in SlotIds, date \in Dates : CreateOperationSlot(s, date, PlainSlot)
  \/ \E p \in PatientIds, date \in Dates, d \in ApproveDoctors \cup {UnknownDoctor},
        s \in SlotIds \cup {UnknownSlot}, by \in Approvers :
          ApprovePatient(p, date, d, s, by, TRUE, TRUE)

SpecApproveIds == Init /\ [][NextApproveIds]_vars

\* approvals for doctors of any load, the seeded ones and one created over REST
NextCapacity ==
  \/ \E p \in PatientIds : CreatePatient(p, "pending")
  \/ \E s \in SlotIds, date \in Dates : CreateOperationSlot(s, date, PlainSlot)
  \/ \E body \in DoctorBodies : CreateDoctor(NewDoctorId, body)
  \/ \E p \in PatientIds, date \in Dates, d \in ApproveDoctors \cup {NewDoctorId},
        s \in SlotIds, by \in Approvers :
          ApprovePatient(p, date, d, s, by, TRUE, TRUE)

SpecCapacity == Init /\ [][NextCapacity]_vars

\* a patient's life over REST: created, approved, and then updated with
\* PUT /api/patients/<patient_id>, the only route that writes a status past
\* approved or rejected
NextLifecycle ==
  \/ \E p \in PatientIds : CreatePatient(p, "pending")
  \/ \E s \in SlotIds, date \in Dates : CreateOperationSlot(s, date, PlainSlot)
  \/ \E p \in PatientIds, date \in Dates, d \in ApproveDoctors,
        s \in SlotIds, by \in Approvers :
          ApprovePatient(p, date, d, s, by, TRUE, TRUE)
  \/ \E p \in PatientIds, st \in PatientStatuses : UpdatePatient(p, st)

SpecLifecycle == Init /\ [][NextLifecycle]_vars

\* the generated slots that reserve requests name
ReservableSlots ==
  {SlotIdOf(40, "OR-1", "AM"), SlotIdOf(42, "OR-3", "PM"), SlotIdOf(57, "OR-2", "AM")}

\* weekly generation next to reservations
NextWeekly ==
  \/ \E start \in StartDates : GenerateWeeklySlots(start)
  \/ \E s \in ReservableSlots, pid \in PatientIds :
        ReserveOperationSlot(s, pid, NULL)

SpecWeekly == Init /\ [][NextWeekly]_vars

\* the daily job next to the server: patients are created over REST, and the
\* job runs over what its two sources return
NextSync ==
  \/ \E p \in PatientIds : CreatePatient(p, "pending")
  \/ \E emr \in EmrResponses, sheet \in SheetResponses : Run(emr, sheet)

SpecSync == Init /\ [][NextSync]_vars

\* two runs of the daily job whose statements interleave
NextSyncConc ==
  \/ \E p \in PatientIds : CreatePatient(p, "pending")
  \/ \E r \in SyncRuns : StartCyberintern(r, EmrGood)
  \/ \E r \in SyncRuns, patient \in {SheetGood} \cup UnidentifiedRows :
        StartPlanned(r, patient)
  \/ \E r \in SyncRuns : RecordMatch(r)
  \/ \E r \in SyncRuns : RecordWrite(r)

SpecSyncConc == Init /\ [][NextSyncConc]_vars

\* the spreadsheet import next to the approval workflow
NextImport ==
  \/ \E p \in PatientIds : CreatePatient(p, "pending")
  \/ \E p \in PatientIds, date \in Dates, d \in ApproveDoctors, by \in Approvers :
        ApprovePatient(p, date, d, UnknownSlot, by, TRUE, TRUE)
  \/ \E p \in PatientIds, reason \in Reasons : RejectPatient(p, reason, TRUE)
  \/ \E records \in SheetRecords : SyncPatientsFromSheets(records)

SpecImport == Init /\ [][NextImport]_vars

\* the chats and the REST creation of a slot, every write succeeding; the
\* chats name the patient the first chat submitted
ChatNamed == {ChatPatientId(7, Epoch)}
NamedTexts == ChatTexts(ChatNamed, {PlainReason})

NextChat ==
  \/ CreateOperationSlot(SLOT_A, "2026-02-10", PlainSlot)
  \/ \E c \in ChatIds, text \in NamedTexts :
       \E now \in ClockChoices(text), s \in SlotChoices(text),
          apiOk \in ApiChoices(text), sendOk \in BOOLEAN :
         HandleTelegram(c, text, now, s, apiOk, sendOk)

SpecChat == Init /\ [][NextChat]_vars

\* the same with reasons of rejection that have commas
ChatReasons == {PlainReason, CommaReason}
ReasonTexts == ChatTexts(ChatNamed, ChatReasons)

NextChatReasons ==
  \/ CreateOperationSlot(SLOT_A, "2026-02-10", PlainSlot)
  \/ \E c \in ChatIds, text \in ReasonTexts :
       \E now \in ClockChoices(text), s \in SlotChoices(text),
          apiOk \in ApiChoices(text), sendOk \in BOOLEAN :
         HandleTelegram(c, text, now, s, apiOk, sendOk)

SpecChatReasons == Init /\ [][NextChatReasons]_vars

\* the registry of patients: creation, the workflow and updates of the
\* patient_id column, every write succeeding but for the UNIQUE constraint
BodyIds == PatientIds \cup {"P3"}

NextRegistry ==
  \/ \E p \in PatientIds : CreatePatient(p, "pending")
  \/ \E s \in SlotIds, date \in Dates : CreateOperationSlot(s, date, PlainSlot)
  \/ \E p \in BodyIds, date \in Dates, d \in ApproveDoctors, s \in SlotIds,
        by \in Approvers : ApprovePatient(p, date, d, s, by, TRUE, TRUE)
  \/ \E p \in BodyIds, reason \in Reasons : RejectPatient(p, reason, TRUE)
  \/ \E p \in BodyIds, q \in BodyIds : UpdatePatientId(p, q)

SpecRegistry == Init /\ [][NextRegistry]_vars

\* the statuses request bodies may carry: the columns are VARCHAR and no
\* handler checks the value. "active" is also what the patients table gives a
\* row whose body names no status (status VARCHAR DEFAULT 'active').
BodyStatuses == PatientStatuses \cup {"active"}
BlockedSlot == [status |-> "blocked", patient_id |-> NULL]

NextStatus ==
  \/ \E p \in PatientIds, st \in {"pending", "active"} : CreatePatient(p, st)
  \/ \E p \in PatientIds, st \in BodyStatuses : UpdatePatient(p, st)
  \/ \E s \in SlotIds, date \in Dates, body \in {PlainSlot, BlockedSlot} :
       CreateOperationSlot(s, date, body)
  \/ \E p \in PatientIds, date \in Dates, d \in ApproveDoctors, s \in SlotIds,
        by \in Approvers : ApprovePatient(p, date, d, s, by, TRUE, TRUE)

SpecStatus == Init /\ [][NextStatus]_vars

\* an approve request and a reject request whose statements interleave;
\* every statement succeeds
NextApproveReject ==
  \/ \E p \in PatientIds : CreatePatient(p, "pending")
  \/ \E s \in SlotIds, date \in Dates : CreateOperationSlot(s, date, PlainSlot)
  \/ \E p \in PatientIds, date \in Dates, d \in ApproveDoctors, s \in SlotIds,
        by \in Approvers : StartApprove("r1", p, date, d, s, by)
  \/ \E p \in PatientIds, reason \in Reasons : StartReject("r2", p, reason)
  \/ ApproveReadPatient("r1")
  \/ ApproveReadSlot("r1")
  \/ ApproveWriteSlot("r1", TRUE)
  \/ ApproveWritePatient("r1", TRUE)
  \/ RejectReadPatient("r2")
  \/ RejectWritePatient("r2", TRUE)

SpecApproveReject == Init /\ [][NextApproveReject]_vars

\* the spreadsheet import record by record beside the approval workflow
NextImportConc ==
  \/ \E p \in PatientIds : CreatePatient(p, "pending")
  \/ CreateOperationSlot(SLOT_A, "2026-02-10", PlainSlot)
  \/ \E p \in PatientIds, date \in Dates, d \in ApproveDoctors, by \in Approvers :
        ApprovePatient(p, date, d, SLOT_A, by, TRUE, TRUE)
  \/ \E p \in PatientIds, reason \in Reasons : RejectPatient(p, reason, TRUE)
  \/ \E records \in SheetRecords : StartSheetsImport("r1", records)
  \/ SheetsUpsert("r1")

SpecImportConc == Init /\ [][NextImportConc]_vars

\* one run of the daily job, call by call, beside the creation of patients.
\* The process runs on (weak fairness of its own steps); the request to the
\* EMR returns within its timeout; whether the sheet's calls return is left to
\* the remote side, the code setting no timeout for them.
NextJob ==
  \/ \E p \in PatientIds : CreatePatient(p, "pending")
  \/ JobStart("run1")
  \/ \E emr \in EmrResponses : EmrReturns("run1", emr)
  \/ \E sheet \in SheetResponses : SheetReturns("run1", sheet)
  \/ JobSummary("run1")

SpecJob ==
  /\ Init /\ [][NextJob]_vars
  /\ WF_vars(JobStart("run1"))
  /\ WF_vars(\E emr \in EmrResponses : EmrReturns("run1", emr))
  /\ WF_vars(JobSummary("run1"))

\* the read-only queries beside the creation of patients (by REST and by
\* chat) and slots and their approval
NextQueries ==
  \/ \E p \in PatientIds : CreatePatient(p, "pending")
  \/ \E c \in ChatIds, sendOk \in BOOLEAN :
       HandleTelegram(c, SubmissionText, Epoch, NULL, TRUE, sendOk)
  \/ \E s \in SlotIds, date \in Dates : CreateOperationSlot(s, date, PlainSlot)
  \/ \E p \in PatientIds, date \in Dates, d \in ApproveDoctors, s \in SlotIds,
        by \in Approvers : ApprovePatient(p, date, d, s, by, TRUE, TRUE)
  \/ ListPendingPatients
  \/ \E date \in Dates \cup {NULL}, status \in {"available", "reserved", NULL} :
       ListOperationSlots(date, status)

SpecQueries == Init /\ [][NextQueries]_vars

\* chat /approve commands, call by call, beside REST approvals
NextChatApprove ==
  \/ \E p \in PatientIds : CreatePatient(p, "pending")
  \/ \E s \in SlotIds, date \in Dates : CreateOperationSlot(s, date, PlainSlot)
  \/ \E p \in PatientIds, date \in Dates, d \in ApproveDoctors, s \in SlotIds,
        by \in Approvers : ApprovePatient(p, date, d, s, by, TRUE, TRUE)
  \/ \E r \in RequestIds, p \in PatientIds, date \in Dates, d \in ApproveDoctors,
        s \in SlotIds \cup {NULL} : StartChatApprove(r, p, date, d, s)
  \/ \E r \in RequestIds : ChatApproveCall(r)

SpecChatApprove == Init /\ [][NextChatApprove]_vars

\* ------------------------------------------------- properties

\* a 4xx answer: validation, not-found and conflict errors
ClientError(r) == r.code \in 400..499

Active(p) == p \in DOMAIN patients /\ patients[p].status \in {"approved", "hospitalized"}

SlotsOf(p) == {s \in DOMAIN slots : slots[s].patient_id = p}

\* C1: every approved or hospitalized patient has exactly one slot naming it,
\* that slot is reserved (or completed) and carries the patient's assigned doctor
C1_CrossEntity ==
  \A p \in DOMAIN patients :
    Active(p) =>
      /\ Cardinality(SlotsOf(p)) = 1
      /\ \A s \in SlotsOf(p) :
           /\ slots[s].status \in {"reserved", "completed"}
           /\ slots[s].doctor_id = patients[p].assigned_doctor_id

\* C2: approving a pending patient on a slot that is not available, because it
\* is reserved for another patient, is answered with a conflict error and
\* leaves the slot, the patient and the doctors as they were
C2_ReservedSlotConflict ==
  [][\A p \in PatientIds, date \in Dates, d \in ApproveDoctors, s \in SlotIds,
        by \in Approvers, slotOk \in BOOLEAN, patOk \in BOOLEAN :
       ( /\ ApprovePatient(p, date, d, s, by, slotOk, patOk)
         /\ p \in DOMAIN patients /\ patients[p].status = "pending"
         /\ s \in DOMAIN slots /\ slots[s].status # "available"
         /\ slots[s].patient_id \notin {NULL, p} )
       => ( /\ ClientError(resp')
            /\ slots'[s] = slots[s]
            /\ patients'[p].status = patients[p].status
            /\ doctors' = doctors )]_vars

\* an approve request for an already approved patient is answered with an
\* error and writes nothing
SecondApproveRefused ==
  \A p \in PatientIds, date \in Dates, d \in ApproveDoctors,
     s \in SlotIds \cup {UnknownSlot}, by \in Approvers,
     slotOk \in BOOLEAN, patOk \in BOOLEAN :
    ( /\ ApprovePatient(p, date, d, s, by, slotOk, patOk)
      /\ p \in DOMAIN patients /\ patients[p].status = "approved" )
    => ( /\ ClientError(resp')
         /\ UNCHANGED <<patients, slots, doctors>> )

\* C3: approve succeeds at most once for a patient, and a second approve on an
\* approved patient is a conflict error that changes no slot, load or patient
C3_ApproveOnce ==
  [][ /\ \A p \in PatientIds : approvals'[p] <= 1
      /\ SecondApproveRefused ]_vars

Done(r) == r \in DOMAIN reqs /\ reqs[r].pc = "done"
Succeeded(r) == Done(r) /\ reqs[r].result = Response(200, "success")

\* C4: of two approve requests for different patients that both arrived while
\* the slot they name was available, at most one succeeds, and the two
\* patients are never both approved
C4_OneApproveWins ==
  \A r1 \in RequestIds, r2 \in RequestIds :
    ( /\ r1 # r2 /\ Done(r1) /\ Done(r2)
      /\ reqs[r1].slot = reqs[r2].slot /\ reqs[r1].pid # reqs[r2].pid
      /\ reqs[r1].slot_seen = "available" /\ reqs[r2].slot_seen = "available" )
    => /\ ~(Succeeded(r1) /\ Succeeded(r2))
       /\ ~(StatusOf(patients, reqs[r1].pid) = "approved"
            /\ StatusOf(patients, reqs[r2].pid) = "approved")

\* C5: approve is all or nothing: after an approve of a pending patient on an
\* existing slot, whether or not one of its writes failed, the slot is not
\* reserved for a patient that is still pending and the patient is not
\* approved without the named slot reserved for it
C5_ApproveAtomic ==
  [][\A p \in PatientIds, date \in Dates, d \in ApproveDoctors, s \in SlotIds,
        by \in Approvers, slotOk \in BOOLEAN, patOk \in BOOLEAN :
       ( /\ ApprovePatient(p, date, d, s, by, slotOk, patOk)
         /\ p \in DOMAIN patients /\ patients[p].status = "pending"
         /\ s \in DOMAIN slots /\ slots[s].status = "available" )
       => ( /\ ~( /\ slots'[s].status = "reserved" /\ slots'[s].patient_id = p
                  /\ patients'[p].status = "pending" )
            /\ ~( /\ patients'[p].status = "approved"
                  /\ ~(slots'[s].status = "reserved" /\ slots'[s].patient_id = p) ) )]_vars

\* C6: a successful approve of a pending patient on an available slot with an
\* existing doctor reserves the slot for the patient and the doctor, records
\* doctor, slot, approver and date on the patient, and adds 1 to the doctor's load
C6_ApproveEffects ==
  [][\A p \in PatientIds, date \in Dates, d \in ApproveDoctors, s \in SlotIds,
        by \in Approvers :
       ( /\ ApprovePatient(p, date, d, s, by, TRUE, TRUE)
         /\ p \in DOMAIN patients /\ patients[p].status = "pending"
         /\ s \in DOMAIN slots /\ slots[s].status = "available"
         /\ d \in DOMAIN doctors )
       => ( /\ slots'[s].status = "reserved"
            /\ slots'[s].patient_id = p
            /\ slots'[s].doctor_id = d
            /\ patients'[p].status = "approved"
            /\ patients'[p].assigned_doctor_id = d
            /\ AssignedSlotId(patients'[p]) = s
            /\ patients'[p].approved_by = by
            /\ patients'[p].hospitalization_date = date
            /\ doctors'[d].current_load = doctors[d].current_load + 1 )]_vars

LegalTransitions ==
  {<<"pending", "approved">>, <<"pending", "rejected">>,
   <<"approved", "hospitalized">>, <<"hospitalized", "discharged">>}

\* C7: a patient's status changes only along pending -> approved,
\* pending -> rejected, approved -> hospitalized, hospitalized -> discharged
C7_TransitionsLegal ==
  [][\A p \in DOMAIN patients :
       /\ p \in DOMAIN patients'
       /\ patients'[p].status # patients[p].status
            => <<patients[p].status, patients'[p].status>> \in LegalTransitions]_vars

\* C8: a slot names a patient if and only if its status is reserved
C8_SlotPatientIffReserved ==
  \A s \in DOMAIN slots :
    (slots[s].patient_id # NULL) <=> (slots[s].status = "reserved")

\* C9: each doctor's current_load is the number of approved or hospitalized
\* patients assigned to that doctor
C9_LoadIsCount ==
  \A d \in DOMAIN doctors :
    /\ doctors[d].current_load >= 0
    /\ doctors[d].current_load =
         Cardinality({p \in DOMAIN patients :
                        Active(p) /\ patients[p].assigned_doctor_id = d})

\* C10: a patient has a rejection reason if and only if its status is rejected
C10_ReasonIffRejected ==
  \A p \in DOMAIN patients :
    (patients[p].rejection_reason \notin {NULL, ""})
      <=> (patients[p].status = "rejected")

\* C11: a reject of a pending patient whose update succeeds sets the patient's
\* status to rejected and its rejection_reason to the given reason, and leaves
\* every slot and every doctor as it was
C11_RejectEffects ==
  [][\A p \in PatientIds, reason \in Reasons :
       ( /\ RejectPatient(p, reason, TRUE)
         /\ p \in DOMAIN patients /\ patients[p].status = "pending" )
       => ( /\ patients'[p].status = "rejected"
            /\ patients'[p].rejection_reason = reason
            /\ slots' = slots
            /\ doctors' = doctors )]_vars

\* a patient was rejected with the given reason while a slot is reserved for
\* another patient
C11_Witness ==
  \E p \in DOMAIN patients, s \in DOMAIN slots :
    /\ patients[p].status = "rejected"
    /\ patients[p].rejection_reason \in Reasons
    /\ resp = Response(200, "success")
    /\ slots[s].status = "reserved" /\ slots[s].patient_id # p

\* C12: applying the same well-formed EMR draft twice to a registry that has
\* no record of it yields one record with its patient_id; the first
\* application is classified created and the second updated, and the registry
\* has the same size after the second as after the first
C12_IdempotentUpsert ==
  [][\A sheet \in SheetResponses :
       ( /\ Run([ok |-> TRUE, patients |-> <<EmrGood, EmrGood>>], sheet)
         /\ EmrGood.id \notin DOMAIN patients )
       => LET first == ProcessCyberinternPatient(NewPass(patients), EmrGood)
              second == ProcessCyberinternPatient(first, EmrGood)
          IN /\ EmrGood.id \in DOMAIN patients'
             /\ summary'.cyberintern_log = <<"created", "updated">>
             /\ Cardinality(DOMAIN second.tbl) = Cardinality(DOMAIN first.tbl)
             /\ EmrGood.id \in DOMAIN second.tbl ]_vars

\* a step of a source adapter: the spreadsheet import or a run of the daily job
SyncStep ==
  \/ \E records \in SheetRecords : SyncPatientsFromSheets(records)
  \/ \E emr \in EmrResponses, sheet \in SheetResponses : Run(emr, sheet)

\* the statuses past pending
Settled == {"approved", "rejected", "hospitalized", "discharged"}

\* C13: an upsert of a source adapter leaves the status of every record that
\* is approved, rejected, hospitalized or discharged as it was
C13_NoStatusRegression ==
  [][SyncStep =>
       \A p \in DOMAIN patients :
         patients[p].status \in Settled
           => /\ p \in DOMAIN patients'
              /\ patients'[p].status = patients[p].status]_vars

RunDone(r) == r \in DOMAIN runs /\ runs[r].pc = "done"

\* the records of the identity a run's draft has: its patient_id, or, for a
\* sheet row without a Patient ID, its name among the external patients
RecordsOf(run) ==
  IF run.patient_id \in {GeneratedId(1), GeneratedId(2)}
    THEN {k \in DOMAIN patients :
            patients[k].name = run.name /\ patients[k].source = "external"}
    ELSE {k \in DOMAIN patients : k = run.patient_id}

SameIdentity(a, b) ==
  /\ a.kind = b.kind
  /\ \/ a.patient_id = b.patient_id
     \/ /\ {a.patient_id, b.patient_id} \subseteq {GeneratedId(1), GeneratedId(2)}
        /\ a.name = b.name

\* C14: when two runs have each processed a draft of the same identity, their
\* statements interleaved in any order, the registry has exactly one record
\* of that identity
C14_OneRecordPerIdentity ==
  \A r1 \in SyncRuns, r2 \in SyncRuns :
    ( /\ r1 # r2 /\ RunDone(r1) /\ RunDone(r2)
      /\ SameIdentity(runs[r1], runs[r2]) )
    => Cardinality(RecordsOf(runs[r1])) = 1

\* the positions of a batch whose draft has no name, and those of its
\* well-formed drafts
Nameless(batch) == {i \in DOMAIN batch : batch[i].name = ""}
WellFormed(batch) == {i \in DOMAIN batch : batch[i].name # "" /\ batch[i].id # ""}

\* C15: in a batch of EMR drafts with a draft without a name, that draft alone
\* fails and is counted in cyberintern_errors, every well-formed draft before
\* and after it is upserted, and cyberintern_synced is the number of drafts
\* upserted
C15_FailureIsolation ==
  [][\A emr \in EmrResponses, sheet \in SheetResponses :
       ( /\ Run(emr, sheet)
         /\ emr.ok /\ Nameless(emr.patients) # {} )
       => ( /\ \A i \in Nameless(emr.patients) : summary'.cyberintern_log[i] = "error"
            /\ summary'.cyberintern_errors >= Cardinality(Nameless(emr.patients))
            /\ \A i \in WellFormed(emr.patients) :
                 /\ emr.patients[i].id \in DOMAIN patients'
                 /\ summary'.cyberintern_log[i] \in {"created", "updated"}
            /\ summary'.cyberintern_synced = Cardinality(WellFormed(emr.patients)) )]_vars

\* C16: when a source fails, the run counts the failure in that source's error
\* counter, still processes every record of the other source, and returns a
\* summary
C16_SourceFailureCounted ==
  [][\A emr \in EmrResponses, sheet \in SheetResponses :
       Run(emr, sheet)
       => ( /\ summary'.status = "success"
            /\ ~emr.ok =>
                 /\ summary'.cyberintern_errors >= 1
                 /\ sheet.ok => Len(summary'.sheets_log) = Len(sheet.patients)
            /\ ~sheet.ok =>
                 /\ summary'.sheets_errors >= 1
                 /\ emr.ok => Len(summary'.cyberintern_log) = Len(emr.patients) )]_vars

\* C17: a call of generate-weekly for a start_date whose fifteen slots all
\* exist creates no slot, leaves every slot as it is (reserved ones included)
\* and reports 0 created
C17_WeeklyIdempotent ==
  [][\A start \in StartDates :
       ( /\ GenerateWeeklySlots(start)
         /\ WeekIds(start) \subseteq DOMAIN slots )
       => ( /\ slots' = slots
            /\ resp'.created = 0 )]_vars

\* C18: a call of generate-weekly for a start_date none of whose slots exist
\* creates fifteen slots, all available: on each of the five days one for OR-1
\* and OR-2 in the morning and one for OR-3 in the afternoon, each on a
\* weekday; and slot_id is an injective function of (date, room, shift)
C18_WeeklyTemplate ==
  [][\A start \in StartDates :
       ( /\ GenerateWeeklySlots(start)
         /\ WeekIds(start) \cap DOMAIN slots = {} )
       => ( /\ Cardinality(DOMAIN slots' \ DOMAIN slots) = 15
            /\ resp'.created = 15
            /\ DOMAIN slots' \ DOMAIN slots = WeekIds(start)
            /\ \A k \in WeekIds(start) :
                 /\ slots'[k].status = "available"
                 /\ Weekday(slots'[k].date) \in 0..4
            /\ \A a \in WeekTriples(start), b \in WeekTriples(start) :
                 SlotIdOf(a[1], a[2], a[3]) = SlotIdOf(b[1], b[2], b[3]) <=> a = b )]_vars

\* the slot is new, or its status or its patient changes in this step
SlotTouched(s) ==
  \/ s \notin DOMAIN slots
  \/ slots'[s].status # slots[s].status
  \/ slots'[s].patient_id # slots[s].patient_id

\* C19: a step that makes a slot reserved or gives it a patient moves that
\* patient from pending to approved in the same step, and after every step
\* each reserved slot's patient is approved or hospitalized
C19_ReserveOnlyByApprove ==
  [][\A s \in DOMAIN slots' :
       /\ ( /\ SlotTouched(s)
            /\ slots'[s].status = "reserved" \/ slots'[s].patient_id # NULL )
          => /\ slots'[s].patient_id \in DOMAIN patients
             /\ patients[slots'[s].patient_id].status = "pending"
             /\ patients'[slots'[s].patient_id].status = "approved"
       /\ slots'[s].status = "reserved"
          => /\ slots'[s].patient_id \in DOMAIN patients'
             /\ patients'[slots'[s].patient_id].status \in {"approved", "hospitalized"}]_vars

\* C20: an approve naming a patient that does not exist, or naming for a
\* pending patient a slot or a doctor that does not exist, is answered 404 and
\* changes no patient, slot or doctor
C20_ApproveNotFound ==
  [][\A p \in PatientIds, date \in Dates, d \in ApproveDoctors \cup {UnknownDoctor},
        s \in SlotIds \cup {UnknownSlot}, by \in Approvers :
       ( /\ ApprovePatient(p, date, d, s, by, TRUE, TRUE)
         /\ \/ p \notin DOMAIN patients
            \/ /\ p \in DOMAIN patients /\ patients[p].status = "pending"
               /\ s \notin DOMAIN slots \/ d \notin DOMAIN doctors )
       => ( /\ resp'.code = 404
            /\ UNCHANGED <<patients, slots, doctors>> )]_vars

AtCapacity(d) ==
  d \in DOMAIN doctors /\ doctors[d].current_load >= doctors[d].max_patients

\* C21: an approve of a pending patient on an available slot for a doctor
\* whose current_load has reached max_patients is answered with success and a
\* capacity warning, approves the patient, reserves the slot and adds 1 to the
\* doctor's current_load
C21_SoftCapacity ==
  [][\A p \in PatientIds, date \in Dates, d \in ApproveDoctors \cup {NewDoctorId},
        s \in SlotIds, by \in Approvers :
       ( /\ ApprovePatient(p, date, d, s, by, TRUE, TRUE)
         /\ p \in DOMAIN patients /\ patients[p].status = "pending"
         /\ s \in DOMAIN slots /\ slots[s].status = "available"
         /\ AtCapacity(d) )
       => ( /\ resp'.code = 200 /\ resp'.body = "success"
            /\ patients'[p].status = "approved"
            /\ slots'[s].status = "reserved" /\ slots'[s].patient_id = p
            /\ doctors'[d].current_load = doctors[d].current_load + 1
            /\ "capacity_warning" \in DOMAIN resp' )]_vars

\* the doctor's load goes down by one in this step
LoadDecremented(d) ==
  d \in DOMAIN doctors => doctors'[d].current_load = doctors[d].current_load - 1

\* C22: a step that returns a patient approved on a slot to pending (the
\* cancellation of its approval) makes every slot reserved for it available
\* with no patient and no doctor, and takes 1 off the assigned doctor's
\* current_load
C22_CancelRoundTrip ==
  [][\A p \in DOMAIN patients :
       ( /\ patients[p].status = "approved" /\ SlotsOf(p) # {}
         /\ p \in DOMAIN patients' /\ patients'[p].status = "pending" )
       => ( /\ \A s \in SlotsOf(p) :
                 /\ slots'[s].status = "available"
                 /\ slots'[s].patient_id = NULL
                 /\ slots'[s].doctor_id = NULL
            /\ LoadDecremented(patients[p].assigned_doctor_id) )]_vars

\* C23: admit (the update to hospitalized) is accepted only for an approved
\* patient and changes no slot and no doctor; discharge (the update to
\* discharged) is accepted only for a hospitalized patient, takes 1 off the
\* assigned doctor's load and completes the patient's reserved slot; from any
\* other status each is refused and changes nothing
C23_AdmitDischarge ==
  [][\A p \in DOMAIN patients :
       /\ UpdatePatient(p, "hospitalized")
          => IF patients[p].status = "approved"
               THEN /\ patients'[p].status = "hospitalized"
                    /\ slots' = slots /\ doctors' = doctors
               ELSE ClientError(resp') /\ patients' = patients
       /\ UpdatePatient(p, "discharged")
          => IF patients[p].status = "hospitalized"
               THEN /\ patients'[p].status = "discharged"
                    /\ LoadDecremented(patients[p].assigned_doctor_id)
                    /\ \A s \in SlotsOf(p) :
                         slots[s].status = "reserved" => slots'[s].status = "completed"
               ELSE ClientError(resp') /\ patients' = patients]_vars

\* C24: a submission from a chat gets a patient id no other chat's submission
\* can get, and when that id is new it adds one row, pending with source
\* telegram, and leaves every other row, those of the same name included, as it
\* was.
C24_DistinctChatRecords ==
  [][\A c \in ChatIds, now \in Clock, sendOk \in BOOLEAN :
       (/\ "reply" \in DOMAIN resp' /\ resp'.reply = "recorded"
        /\ HandleTelegram(c, SubmissionText, now, NULL, TRUE, sendOk))
       => LET pid == ChatPatientId(c, now)
          IN /\ \A c2 \in ChatIds \ {c}, t \in Clock : pid # ChatPatientId(c2, t)
             /\ pid \notin DOMAIN patients
                => /\ DOMAIN patients' = DOMAIN patients \cup {pid}
                   /\ Cardinality(DOMAIN patients') = Cardinality(DOMAIN patients) + 1
                   /\ patients'[pid].status = "pending"
                   /\ patients'[pid].source = "telegram"
                   /\ patients'[pid].name = SplitComma(SubmissionText)[1]
                   /\ \A q \in DOMAIN patients : patients'[q] = patients[q]]_vars

\* two chats have sent the same text: two rows of that name, both pending
C24_Witness ==
  \E c1 \in ChatIds, c2 \in ChatIds, t \in Clock :
    LET p == ChatPatientId(c1, t)
        q == ChatPatientId(c2, t)
    IN /\ c1 # c2 /\ p # q
       /\ p \in DOMAIN patients /\ q \in DOMAIN patients
       /\ patients[p].name = patients[q].name
       /\ patients[p].status = "pending" /\ patients[q].status = "pending"
       /\ patients[p].source = "telegram" /\ patients[q].source = "telegram"

\* C25: whatever the message, the tables the webhook leaves when its reply is
\* not delivered are the tables it leaves when the reply is delivered (the
\* handler writes nothing to the doctors table).
C25_SendFailureKeepsState ==
  \A c \in ChatIds, text \in NamedTexts, now \in Clock :
    \A s \in SlotChoices(text), apiOk \in ApiChoices(text) :
      LET sent == TelegramResult(c, text, now, s, apiOk, TRUE)
          failed == TelegramResult(c, text, now, s, apiOk, FALSE)
      IN /\ failed.patients = sent.patients
         /\ failed.slots = sent.slots
         /\ failed.reply[1] = sent.reply[1]

\* a chat approval whose reply was not delivered: the patient is approved and
\* the slot reserved all the same
C25_Witness ==
  /\ "delivered" \in DOMAIN resp
  /\ ~resp.delivered
  /\ resp.reply = "approved"
  /\ \E p \in DOMAIN patients, s \in DOMAIN slots :
       /\ patients[p].status = "approved"
       /\ slots[s].status = "reserved" /\ slots[s].patient_id = p

\* C26: a chat /reject leaves the tables reject_patient leaves for the same
\* patient and reason, a chat /approve the tables approve_patient leaves for the
\* same patient, date and doctor and some slot, and the chat reports success
\* exactly when the route answers 200.
C26_ChatSameAsRest ==
  [][\A c \in ChatIds, now \in Clock, p \in ChatNamed, sendOk \in BOOLEAN :
       /\ \A reason \in ChatReasons :
            LET text == <<"/reject", p>> \o reason
                rest == RejectResult(p, Join(SubSeq(Split(text), 3, Len(Split(text)))), TRUE)
            IN HandleTelegram(c, text, now, NULL, TRUE, sendOk)
               => /\ patients' = rest.patients
                  /\ slots' = slots
                  /\ (resp'.reply = "rejected") <=> (rest.resp.code = 200)
       /\ \A date \in Dates, d \in ApproveDoctors :
            LET text == <<"/approve", p, date, d>>
            IN \A s \in SlotChoices(text) :
                 HandleTelegram(c, text, now, s, TRUE, sendOk)
                 => \E s2 \in SlotIds :
                      LET rest == ApproveResult(p, date, d, s2, "admin", TRUE, TRUE)
                      IN /\ patients' = rest.patients
                         /\ slots' = rest.slots
                         /\ (resp'.reply = "approved") <=> (rest.resp.code = 200)]_vars

\* an answer that tells the caller of a failure: a status outside 2xx, or a
\* body with success false
ReportsError(r) == r.code \notin 200..299 \/ r.body = "failure"

\* C27: an approve or reject of a pending patient one of whose writes fails
\* reports an error, and one that reports success has written the patient's row
\* and, when the request names a slot of the table, has reserved it.
C27_ErrorsReported ==
  [][\A p \in PatientIds :
       (p \in DOMAIN patients /\ patients[p].status = "pending")
       => /\ \A date \in Dates, d \in ApproveDoctors, s \in SlotIds, by \in Approvers,
                slotOk \in BOOLEAN, patOk \in BOOLEAN :
               ApprovePatient(p, date, d, s, by, slotOk, patOk)
               => /\ (~patOk \/ (s \in DOMAIN slots /\ ~slotOk)) => ReportsError(resp')
                  /\ ~ReportsError(resp')
                     => /\ patients'[p].status = "approved"
                        /\ s \in DOMAIN slots
                           => slots'[s].status = "reserved" /\ slots'[s].patient_id = p
          /\ \A reason \in Reasons, ok \in BOOLEAN :
               RejectPatient(p, reason, ok)
               => /\ ~ok => ReportsError(resp')
                  /\ ~ReportsError(resp') => patients'[p].status = "rejected"]_vars

\* C29: a patient_id of the registry stays in the registry, whatever the
\* operation
C29_IdsPersist ==
  [][\A p \in DOMAIN patients : p \in DOMAIN patients']_vars

SlotStatuses == {"available", "reserved", "completed", "cancelled"}

\* C30: every patient's status is one of pending, approved, rejected,
\* hospitalized, discharged, and every slot's status one of available,
\* reserved, completed, cancelled
C30_ClosedStatuses ==
  /\ \A p \in DOMAIN patients : patients[p].status \in PatientStatuses
  /\ \A s \in DOMAIN slots : slots[s].status \in SlotStatuses

\* C31: of two approve requests for the same patient that name two different
\* slots, both available when the requests arrived, at most one succeeds and
\* at most one slot ends reserved for the patient
C31_OneSlotPerPatient ==
  \A r1 \in RequestIds, r2 \in RequestIds :
    ( /\ r1 # r2 /\ Done(r1) /\ Done(r2)
      /\ reqs[r1].pid = reqs[r2].pid /\ reqs[r1].slot # reqs[r2].slot
      /\ reqs[r1].slot_seen = "available" /\ reqs[r2].slot_seen = "available" )
    => /\ ~(Succeeded(r1) /\ Succeeded(r2))
       /\ Cardinality({s \in SlotsOf(reqs[r1].pid) : slots[s].status = "reserved"}) <= 1

\* C32: once an approve and a reject of the same patient have both finished,
\* the patient is not rejected with a slot reserved for it, and not approved
\* with a rejection_reason
C32_ApproveOrReject ==
  \A r1 \in RequestIds, r2 \in RequestIds :
    ( /\ r1 # r2 /\ Done(r1) /\ Done(r2)
      /\ reqs[r1].pid = reqs[r2].pid /\ reqs[r1].pid \in DOMAIN patients )
    => LET p == reqs[r1].pid
       IN /\ ~( /\ patients[p].status = "rejected"
                /\ \E s \in SlotsOf(p) : slots[s].status = "reserved" )
          /\ ~( /\ patients[p].status = "approved"
                /\ patients[p].rejection_reason # NULL )

\* C33: an upsert of a record read while its patient was pending leaves the
\* status, the assigned doctor and the slots of a patient approved or
\* rejected since then as they are
C33_UpsertKeepsApproval ==
  [][\A r \in DOMAIN reqs :
       ( /\ SheetsUpsert(r) /\ reqs[r].records # <<>> )
       => LET p == Head(reqs[r].records).patient_id
          IN ( /\ p \in DOMAIN reqs[r].seen /\ reqs[r].seen[p] = "pending"
               /\ p \in DOMAIN patients
               /\ patients[p].status \in {"approved", "rejected"} )
             => /\ patients'[p].status = patients[p].status
                /\ patients'[p].assigned_doctor_id = patients[p].assigned_doctor_id
                /\ slots' = slots]_vars

\* C34: a run of the daily job that has started eventually returns its summary
C34_RunTerminates ==
  ("run1" \in DOMAIN runs) ~> ("run1" \in DOMAIN runs /\ runs["run1"].pc = "done")

\* C35: a message that starts with /approve or /reject is never handled as a
\* submission: it adds no row to the patients table and is not answered as
\* recorded
C35_CommandsNotSubmissions ==
  [][\A c \in ChatIds, text \in ReasonTexts, now \in Clock :
       (StartsWith(text, "/approve") \/ StartsWith(text, "/reject"))
       => \A s \in SlotChoices(text), apiOk \in BOOLEAN, sendOk \in BOOLEAN :
            HandleTelegram(c, text, now, s, apiOk, sendOk)
            => /\ DOMAIN patients' = DOMAIN patients
               /\ resp'.reply # "recorded"]_vars

\* C36: the list of pending patients is the set of the patients whose status
\* is pending, the list of slots asked without a status the set of the slots
\* (of the date, when one is given) whatever their status, and neither query
\* changes a table
C36_ReadOnlyQueries ==
  [][/\ ListPendingPatients
        => /\ resp'.rows = {p \in DOMAIN patients : patients[p].status = "pending"}
           /\ UNCHANGED <<patients, slots, doctors>>
     /\ \A date \in Dates \cup {NULL} :
          ListOperationSlots(date, NULL)
          => /\ resp'.rows = {s \in DOMAIN slots : date = NULL \/ slots[s].date = date}
             /\ UNCHANGED <<patients, slots, doctors>>]_vars

\* C37: a chat /approve for a date without an available slot replies with an
\* error and changes no table; otherwise it goes on with a slot available on
\* that date, and when that slot is no longer available at the approval, the
\* command fails and changes no table
C37_ChatApproveSlot ==
  [][\A r \in RequestIds :
       /\ \A p \in PatientIds, date \in Dates, d \in ApproveDoctors,
             s \in SlotIds \cup {NULL} :
            StartChatApprove(r, p, date, d, s)
            => /\ UNCHANGED <<patients, slots, doctors>>
               /\ IF AvailableSlots(date) = {}
                    THEN reqs'[r].result.body = "no available slots"
                    ELSE /\ slots[s].date = date
                         /\ slots[s].status = "available"
       /\ ( /\ ChatApproveCall(r)
            /\ slots[reqs[r].slot].status # "available" )
          => /\ reqs'[r].result.body # "approved"
             /\ UNCHANGED <<patients, slots, doctors>>]_vars

\* C38: a submission answered as recorded has added its row to the patients
\* table
C38_RecordedMeansInserted ==
  [][\A c \in ChatIds, now \in Clock, sendOk \in BOOLEAN :
       ( /\ HandleTelegram(c, SubmissionText, now, NULL, TRUE, sendOk)
         /\ resp'.reply = "recorded" )
       => /\ ChatPatientId(c, now) \in DOMAIN patients'
          /\ DOMAIN patients' # DOMAIN patients]_vars

\* C39: the patient id generated for a submission is the id of no row of the
\* patients table
C39_FreshChatId ==
  [][\A c \in ChatIds, now \in Clock, sendOk \in BOOLEAN :
       HandleTelegram(c, SubmissionText, now, NULL, TRUE, sendOk)
       => ChatPatientId(c, now) \notin DOMAIN patients]_vars

====
